---- MODULE Spec2Model ----
(***************************************************************************)
(* Model of random_or_once/download_zoom_recordings.py: the month-window   *)
(* planner, the cursor-paginated listing generator, the collision          *)
(* resolver, the staged download and the orchestrating main loop.          *)
(***************************************************************************)
EXTENDS Integers, Naturals, Sequences, FiniteSets, TLC

VARIABLES
    \* month_windows(start_d, end_d)
    start_d,      \* argument start_d, a date [y, m, d]
    end_d,        \* argument end_d
    cur,          \* local cur
    windows,      \* the pairs yielded so far, in order
    wpc,          \* position of the generator: "loop" | "returned"
    \* get_token()
    tok_issued,   \* number of tokens the identity endpoint has issued; token k is the k-th
    \* the remote library
    srv,          \* what it still holds: [pages, recs]
    \* list_records(token, user_id, f, t)
    l_window,     \* arguments <<f, t>>
    l_token,      \* local token
    l_cursor,     \* params.get("next_page_token"), None while the key is absent
    l_next_page,  \* local next_page
    l_data,       \* r.json() of the current page: [n, next]
    l_idx,        \* records of the current page already yielded
    l_pc,         \* "fetch" | "got401" | "yielding" | "done" | "raised"
    l_demand,     \* the consumer has called next() and the generator is running
    l_reqs,       \* history: every GET of the listing endpoint, in order
    l_refreshes,  \* history: get_token() calls made by list_records
    l_pages,      \* history: every page the service returned with status 200
    l_out,        \* history: every <<meeting, token>> handed to the consumer
    \* the file system under OUT_DIR
    fs,           \* path -> content [src, len] of every existing file
    m_folders,    \* the record folders that exist
    \* download(url, dest, token), all frames of the recursion sharing url and dest
    d_dest,       \* argument dest
    d_token,      \* token of the innermost frame
    d_depth,      \* frames of download on the stack, 0 when none runs
    d_pc,         \* innermost frame: "idle" | "request" | "got401" | "streaming"
    d_len,        \* chunks the response body holds
    d_result,     \* what the outermost call gave its caller: "none" | "ok" | "error"
    d_error,      \* the exception raised, "" when none
    d_src,        \* the asset requested, numbered per run
    d_requests,   \* history: GETs of the asset made by this call
    d_refreshes,  \* history: get_token() calls made by this call
    d_fs0,        \* history: the file system when download was called
    \* main()
    m_pc,         \* "init" | "windows" | "records" | "await" | "assets" | "download"
                  \* | "exit0" | "failed"
    m_token,      \* local token
    m_new_token,  \* local new_token
    m_folder,     \* local folder
    m_files,      \* recording_files of the current meeting not yet visited
    m_nassets,    \* recording_files of the current meeting already visited
    m_nrecords,   \* meetings visited in this run
    m_done,       \* history: download calls that returned
    m_failed,     \* history: download calls that raised
    m_skipped     \* history: recording files skipped for want of a download_url

winVars == <<start_d, end_d, cur, windows, wpc>>

listVars == <<l_window, l_token, l_cursor, l_next_page, l_data, l_idx, l_pc, l_demand,
              l_reqs, l_refreshes, l_pages, l_out>>

dlVars == <<d_dest, d_token, d_depth, d_pc, d_len, d_result, d_error, d_src, d_requests,
            d_refreshes, d_fs0>>

mainVars == <<m_pc, m_token, m_new_token, m_folder, m_files, m_nassets, m_nrecords, m_done,
              m_failed, m_skipped>>

vars == <<start_d, end_d, cur, windows, wpc, tok_issued, srv, l_window, l_token, l_cursor,
          l_next_page, l_data, l_idx, l_pc, l_demand, l_reqs, l_refreshes, l_pages, l_out,
          fs, m_folders, d_dest, d_token, d_depth, d_pc, d_len, d_result, d_error, d_src,
          d_requests, d_refreshes, d_fs0, m_pc, m_token, m_new_token, m_folder,
          m_files, m_nassets, m_nrecords, m_done, m_failed, m_skipped>>

(***************************************************************************)
(* datetime.date, as far as the planner uses it                            *)
(***************************************************************************)

\* number of calendar months, counted from January 2023, the dates are drawn from
MaxMonths == 15

\* days of the month the arguments are drawn from (invalid ones are dropped)
DaySamples == {1, 2, 15, 28, 29, 30, 31}

IsLeap(y) == (y % 4 = 0) /\ ((y % 100 # 0) \/ (y % 400 = 0))

DaysInMonth(y, m) ==
    IF m = 2 THEN (IF IsLeap(y) THEN 29 ELSE 28)
    ELSE IF m \in {4, 6, 9, 11} THEN 30 ELSE 31

MkDate(y, m, d) == [y |-> y, m |-> m, d |-> d]

\* date.__le__ / date.__lt__
DateLE(a, b) ==
    \/ a.y < b.y
    \/ a.y = b.y /\ a.m < b.m
    \/ a.y = b.y /\ a.m = b.m /\ a.d <= b.d

DateLT(a, b) == DateLE(a, b) /\ a # b

\* min(a, b) on dates
DateMin(a, b) == IF DateLE(a, b) THEN a ELSE b

\* d + timedelta(days=1)
NextDay(dt) ==
    IF dt.d < DaysInMonth(dt.y, dt.m) THEN MkDate(dt.y, dt.m, dt.d + 1)
    ELSE IF dt.m < 12 THEN MkDate(dt.y, dt.m + 1, 1)
    ELSE MkDate(dt.y + 1, 1, 1)

\* d - timedelta(days=1)
PrevDay(dt) ==
    IF dt.d > 1 THEN MkDate(dt.y, dt.m, dt.d - 1)
    ELSE IF dt.m > 1 THEN MkDate(dt.y, dt.m - 1, DaysInMonth(dt.y, dt.m - 1))
    ELSE MkDate(dt.y - 1, 12, 31)

RECURSIVE PlusDays(_, _)
\* d + timedelta(days=n), n >= 0
PlusDays(dt, n) == IF n = 0 THEN dt ELSE PlusDays(NextDay(dt), n - 1)

\* d.replace(day=k)
ReplaceDay(dt, k) == MkDate(dt.y, dt.m, k)

\* date.isoformat(): the zero-padded YYYY-MM-DD text, kept as its three fields
isoformat(dt) == <<dt.y, dt.m, dt.d>>

first_of_month(dt) == ReplaceDay(dt, 1)

add_month(dt) == ReplaceDay(PlusDays(ReplaceDay(dt, 28), 4), 1)

\* the month with index i, counted from January 2023
MonthOf(i) == [y |-> 2023 + (i \div 12), m |-> 1 + (i % 12)]

Dates ==
    { MkDate(MonthOf(i).y, MonthOf(i).m, d) :
        <<i, d>> \in { p \in (0 .. MaxMonths - 1) \X DaySamples :
                          p[2] <= DaysInMonth(MonthOf(p[1]).y, MonthOf(p[1]).m) } }

\* no month_windows generator exists
WinIdle ==
    /\ start_d = MkDate(2023, 1, 1)
    /\ end_d = MkDate(2023, 1, 1)
    /\ cur = MkDate(2023, 1, 1)
    /\ windows = <<>>
    /\ wpc = "returned"

(***************************************************************************)
(* list_records: the generator runs only while the consumer waits in       *)
(* next(); one action per request to the service and one per yield         *)
(***************************************************************************)

\* pages one window of the remote library holds at most
MaxPages == 3

\* records one page holds at most
MaxPageRecs == 2

None == "None"

\* values of data.get("next_page_token"): absent, empty, or a cursor
Cursors == {"c1", "c2"}

NoCursors == {None, ""}

\* Python truthiness of next_page
Truthy(c) == c \notin NoCursors

Statuses == {200, 401, 500}

Min(a, b) == IF a <= b THEN a ELSE b

\* the cursors the service may return with its next page: the last page of a window
\* and the last page the library holds come without one
NextCursors ==
    IF Len(l_pages) + 1 >= MaxPages \/ srv.pages <= 1 THEN NoCursors
    ELSE Cursors \cup NoCursors

\* the numbers of meetings the service may return on its next page
NextCounts == 0 .. Min(MaxPageRecs, srv.recs)

\* the library after a page of n meetings was served
Served(n) == [pages |-> IF srv.pages > 0 THEN srv.pages - 1 ELSE 0, recs |-> srv.recs - n]

ListIdle ==
    /\ l_window = <<>>
    /\ l_token = 0
    /\ l_cursor = None
    /\ l_next_page = None
    /\ l_data = [n |-> 0, next |-> None]
    /\ l_idx = 0
    /\ l_pc = "done"
    /\ l_demand = FALSE
    /\ l_reqs = <<>>
    /\ l_refreshes = 0
    /\ l_pages = <<>>
    /\ l_out = <<>>

\* list_records(token, USER_ID, f, t) is called: nothing runs before the first next()
ListCall(tok, f, t) ==
    /\ l_window' = <<f, t>>
    /\ l_token' = tok
    /\ l_cursor' = None
    /\ l_next_page' = None
    /\ l_data' = [n |-> 0, next |-> None]
    /\ l_idx' = 0
    /\ l_pc' = "fetch"
    /\ l_demand' = FALSE
    /\ l_reqs' = <<>>
    /\ l_refreshes' = 0
    /\ l_pages' = <<>>
    /\ l_out' = <<>>

\* the request requests.get(url, headers=Bearer token, params=params) and its status
Req(cursor, tok, status) ==
    [win |-> l_window, cursor |-> cursor, token |-> tok, status |-> status,
     page |-> Len(l_pages) + 1, yielded |-> Len(l_out)]

\* r.json() accepted: data is the page, the for loop starts
ListAccept(n, c) ==
    /\ l_data' = [n |-> n, next |-> c]
    /\ l_pages' = Append(l_pages, [n |-> n, next |-> c])
    /\ l_idx' = 0
    /\ l_pc' = "yielding"
    /\ srv' = Served(n)
    /\ UNCHANGED l_demand

\* an exception leaves the generator: the consumer's next() raises
ListRaise ==
    /\ l_pc' = "raised"
    /\ l_demand' = FALSE
    /\ UNCHANGED <<l_data, l_pages, l_idx, srv>>

\* lines 67-71: the first GET of a page
ListFetch ==
    /\ l_demand
    /\ l_pc = "fetch"
    /\ LET cursor == IF Truthy(l_next_page) THEN l_next_page ELSE l_cursor
       IN  /\ l_cursor' = cursor
           /\ \/ \E n \in NextCounts, c \in NextCursors :
                    /\ l_reqs' = Append(l_reqs, Req(cursor, l_token, 200))
                    /\ ListAccept(n, c)
              \/ /\ l_reqs' = Append(l_reqs, Req(cursor, l_token, 401))
                 /\ l_pc' = "got401"
                 /\ UNCHANGED <<l_data, l_pages, l_idx, l_demand, srv>>
              \/ /\ l_reqs' = Append(l_reqs, Req(cursor, l_token, 500))
                 /\ ListRaise
    /\ UNCHANGED <<l_window, l_token, l_next_page, l_refreshes, l_out, tok_issued>>

\* the second GET of the page, with the token just fetched
ListSecondGet(tok) ==
    \/ \E n \in NextCounts, c \in NextCursors :
          /\ l_reqs' = Append(l_reqs, Req(l_cursor, tok, 200))
          /\ ListAccept(n, c)
    \/ \E s \in Statuses \ {200} :
          /\ l_reqs' = Append(l_reqs, Req(l_cursor, tok, s))
          /\ ListRaise

\* a refresh-and-retry that keeps retrying while the service answers 401
ListRetry_unbounded ==
    /\ l_demand
    /\ l_pc = "got401"
    /\ l_refreshes' = l_refreshes + 1
    /\ tok_issued' = tok_issued + 1
    /\ l_token' = tok_issued + 1
    /\ \/ \E n \in NextCounts, c \in NextCursors :
             /\ l_reqs' = Append(l_reqs, Req(l_cursor, tok_issued + 1, 200))
             /\ ListAccept(n, c)
       \/ /\ l_reqs' = Append(l_reqs, Req(l_cursor, tok_issued + 1, 401))
          /\ UNCHANGED <<l_pc, l_data, l_pages, l_idx, l_demand, srv>>
    /\ UNCHANGED <<l_window, l_cursor, l_next_page, l_out>>

\* lines 72-74: token = get_token(); the same request again; r.raise_for_status()
ListRetry ==
    /\ l_demand
    /\ l_pc = "got401"
    /\ l_refreshes' = l_refreshes + 1
    /\ \/ /\ tok_issued' = tok_issued + 1
          /\ l_token' = tok_issued + 1
          /\ ListSecondGet(tok_issued + 1)
       \/ \* get_token() raises: the identity endpoint refused
          /\ ListRaise
          /\ UNCHANGED <<tok_issued, l_token, l_reqs>>
    /\ UNCHANGED <<l_window, l_cursor, l_next_page, l_out>>

\* lines 76-77: yield m, token suspends the generator
ListYield ==
    /\ l_demand
    /\ l_pc = "yielding"
    /\ l_idx < l_data.n
    /\ l_out' = Append(l_out, <<<<Len(l_pages), l_idx + 1>>, l_token>>)
    /\ l_idx' = l_idx + 1
    /\ l_demand' = FALSE
    /\ UNCHANGED <<l_window, l_token, l_cursor, l_next_page, l_data, l_pc, l_reqs,
                   l_refreshes, l_pages, tok_issued, srv>>

\* a walk that stops after the page in hand, whatever cursor came with it
ListPageEnd_stops ==
    /\ l_demand
    /\ l_pc = "yielding"
    /\ l_idx = l_data.n
    /\ l_next_page' = l_data.next
    /\ l_pc' = "done"
    /\ l_demand' = FALSE
    /\ UNCHANGED <<l_window, l_token, l_cursor, l_data, l_idx, l_reqs, l_refreshes,
                   l_pages, l_out, tok_issued, srv>>

\* lines 78-80: the page is used up; follow the cursor or stop
ListPageEnd ==
    /\ l_demand
    /\ l_pc = "yielding"
    /\ l_idx = l_data.n
    /\ l_next_page' = l_data.next
    /\ IF Truthy(l_data.next)
       THEN l_pc' = "fetch" /\ UNCHANGED l_demand
       ELSE l_pc' = "done" /\ l_demand' = FALSE
    /\ UNCHANGED <<l_window, l_token, l_cursor, l_data, l_idx, l_reqs, l_refreshes,
                   l_pages, l_out, tok_issued, srv>>

\* the consumer asks for the next element
ConsumerNext ==
    /\ ~l_demand
    /\ l_pc \notin {"done", "raised"}
    /\ l_demand' = TRUE
    /\ UNCHANGED <<l_window, l_token, l_cursor, l_next_page, l_data, l_idx, l_pc,
                   l_reqs, l_refreshes, l_pages, l_out, tok_issued, srv>>

(***************************************************************************)
(* Paths and the file system                                               *)
(***************************************************************************)

\* chunks a non-empty response body holds
MaxChunks == 2

\* a pathlib.Path under OUT_DIR: folder / f"{stem}{ext}" when ctr = 0 and
\* folder / f"{stem}-{ctr}{ext}" otherwise, with ".part" appended or not
MkPath(folder, stem, ext) ==
    [folder |-> folder, stem |-> stem, ctr |-> 0, ext |-> ext, part |-> FALSE]

\* no path
NoPath == MkPath(<<>>, "", "")

\* path.with_name(f"{path.stem}-{i}{path.suffix}")
with_counter(path, i) == [path EXCEPT !.ctr = i]

\* dest.with_suffix(dest.suffix + ".part")
part_of(dest) == [dest EXCEPT !.part = TRUE]

\* path.exists()
exists(f, path) == path \in DOMAIN f

FsWrite(f, path, c) == [q \in DOMAIN f \cup {path} |-> IF q = path THEN c ELSE f[q]]

\* Path.unlink(missing_ok=True)
FsUnlink(f, path) == [q \in DOMAIN f \ {path} |-> f[q]]

\* Path.rename(target): replaces target when it exists
FsRename(f, path, target) == FsWrite(FsUnlink(f, path), target, f[path])

RECURSIVE probe(_, _, _)
\* the while True loop of next_unique_path, from counter i on
probe(f, path, i) ==
    IF ~exists(f, with_counter(path, i)) THEN with_counter(path, i)
    ELSE probe(f, path, i + 1)

next_unique_path_unchecked(f, path) ==
    IF ~exists(f, path) THEN path ELSE with_counter(path, 2)

next_unique_path(f, path) ==
    IF ~exists(f, path) THEN path ELSE probe(f, path, 2)

(***************************************************************************)
(* download: one action per request, per chunk written and for the commit  *)
(***************************************************************************)

\* frames of download the model lets the recursion reach
MaxDepth == 3

DlIdle ==
    /\ d_dest = NoPath
    /\ d_token = 0
    /\ d_depth = 0
    /\ d_pc = "idle"
    /\ d_len = 0
    /\ d_result = "none"
    /\ d_error = ""
    /\ d_src = 0
    /\ d_requests = 0
    /\ d_refreshes = 0
    /\ d_fs0 = <<>>

\* download(dl, dest, new_token) is called by main
DlCall(dest, tok, src) ==
    /\ d_dest' = dest
    /\ d_token' = tok
    /\ d_depth' = 1
    /\ d_pc' = "request"
    /\ d_len' = 0
    /\ d_result' = "none"
    /\ d_error' = ""
    /\ d_src' = src
    /\ d_requests' = 0
    /\ d_refreshes' = 0
    /\ d_fs0' = fs

\* an exception leaves every frame of download
DlRaise(e) ==
    /\ d_pc' = "idle"
    /\ d_depth' = 0
    /\ d_result' = "error"
    /\ d_error' = e

\* the innermost frame returns; a frame that called it raises at line 91
DlReturn ==
    IF d_depth = 1
    THEN /\ d_pc' = "idle"
         /\ d_depth' = 0
         /\ d_result' = "ok"
         /\ d_error' = ""
    ELSE DlRaise("Token expired during download. Re-run the script.")

\* lines 86-93: the GET, the status checks, open(tmp, "wb")
DlRequest ==
    /\ d_pc = "request"
    /\ d_requests' = d_requests + 1
    /\ \/ /\ d_depth < MaxDepth
          /\ d_pc' = "got401"
          /\ UNCHANGED <<fs, d_len, d_depth, d_result, d_error>>
       \/ /\ DlRaise("HTTPError")
          /\ UNCHANGED <<fs, d_len>>
       \/ \E n \in {0, MaxChunks} :
             /\ d_len' = n
             /\ fs' = FsWrite(fs, part_of(d_dest), [src |-> d_src, len |-> 0])
             /\ d_pc' = "streaming"
             /\ UNCHANGED <<d_depth, d_result, d_error>>
    /\ UNCHANGED <<d_dest, d_token, d_src, d_refreshes, d_fs0, tok_issued, srv>>

\* lines 89-90: token = get_token(); download(url, dest, token)
DlRefreshRecurse ==
    /\ d_pc = "got401"
    /\ d_refreshes' = d_refreshes + 1
    /\ \/ /\ tok_issued' = tok_issued + 1
          /\ d_token' = tok_issued + 1
          /\ d_depth' = d_depth + 1
          /\ d_pc' = "request"
          /\ UNCHANGED <<d_result, d_error>>
       \/ \* get_token() raises
          /\ DlRaise("HTTPError")
          /\ UNCHANGED <<tok_issued, d_token>>
    /\ UNCHANGED <<fs, d_dest, d_len, d_src, d_requests, d_fs0, srv>>

\* lines 94-96: one non-empty chunk is written to tmp
DlChunk ==
    /\ d_pc = "streaming"
    /\ fs[part_of(d_dest)].len < d_len
    /\ fs' = [fs EXCEPT ![part_of(d_dest)].len = @ + 1]
    /\ UNCHANGED <<dlVars, tok_issued, srv>>

\* iter_content raises: the connection broke before the body was complete
DlStreamFail ==
    /\ d_pc = "streaming"
    /\ fs[part_of(d_dest)].len < d_len
    /\ DlRaise("ConnectionError")
    /\ UNCHANGED <<fs, d_dest, d_token, d_len, d_src, d_requests, d_refreshes, d_fs0,
                   tok_issued, srv>>

DlFinish_early ==
    /\ d_pc = "streaming"
    /\ fs[part_of(d_dest)].len = d_len \/ fs[part_of(d_dest)].len > 0
    /\ IF fs[part_of(d_dest)].len = 0
       THEN /\ fs' = FsUnlink(fs, part_of(d_dest))
            /\ DlRaise("Downloaded zero bytes.")
       ELSE /\ fs' = FsRename(fs, part_of(d_dest), d_dest)
            /\ DlReturn
    /\ UNCHANGED <<d_dest, d_token, d_len, d_src, d_requests, d_refreshes, d_fs0,
                   tok_issued, srv>>

DlFinish_keeps_part ==
    /\ d_pc = "streaming"
    /\ fs[part_of(d_dest)].len = d_len
    /\ IF fs[part_of(d_dest)].len = 0
       THEN /\ UNCHANGED fs
            /\ DlRaise("Downloaded zero bytes.")
       ELSE /\ fs' = FsRename(fs, part_of(d_dest), d_dest)
            /\ DlReturn
    /\ UNCHANGED <<d_dest, d_token, d_len, d_src, d_requests, d_refreshes, d_fs0,
                   tok_issued, srv>>

\* lines 97-100: the body is exhausted; the size check, then unlink or rename
DlFinish ==
    /\ d_pc = "streaming"
    /\ fs[part_of(d_dest)].len = d_len
    /\ IF fs[part_of(d_dest)].len = 0
       THEN /\ fs' = FsUnlink(fs, part_of(d_dest))
            /\ DlRaise("Downloaded zero bytes.")
       ELSE /\ fs' = FsRename(fs, part_of(d_dest), d_dest)
            /\ DlReturn
    /\ UNCHANGED <<d_dest, d_token, d_len, d_src, d_requests, d_refreshes, d_fs0,
                   tok_issued, srv>>

(***************************************************************************)
(* main: the loop over the recording files of one meeting                  *)
(***************************************************************************)

\* recording files one meeting holds at most
MaxAssets == 3

\* sanitize(f"{rtype}.{ext}") of the recording files the service lists
FileNames == { <<"audio_only", ".m4a">>, <<"shared_screen_with_speaker_view", ".mp4">> }

\* an entry of recording_files: its name and whether it has a download_url
RecordingFiles == [name : FileNames, url : BOOLEAN]

RECURSIVE SeqsUpTo(_, _)
\* the sequences over S of length at most n
SeqsUpTo(S, n) ==
    IF n = 0 THEN {<<>>}
    ELSE LET shorter == SeqsUpTo(S, n - 1)
         IN  shorter \cup { Append(q, x) : q \in shorter, x \in S }

\* the folder of a meeting: f"xRecording - {topic} - {dt.isoformat()}"
FolderOf(topic, dt) == <<topic, dt>>

MainIdle ==
    /\ m_pc = "exit0"
    /\ m_token = 0
    /\ m_new_token = 0
    /\ m_folder = <<>>
    /\ m_files = <<>>
    /\ m_nassets = 0
    /\ m_nrecords = 0
    /\ m_done = 0
    /\ m_failed = 0
    /\ m_skipped = 0

\* lines 120-131: the next recording file, or the end of the list
MainNextAsset ==
    /\ m_pc = "assets"
    /\ IF m_files = <<>>
       THEN /\ m_pc' = "records"
            /\ UNCHANGED <<m_files, m_nassets, m_skipped, dlVars>>
       ELSE LET rf == Head(m_files)
                dest == next_unique_path(fs, MkPath(m_folder, rf.name[1], rf.name[2]))
            IN  /\ m_files' = Tail(m_files)
                /\ m_nassets' = m_nassets + 1
                /\ IF ~rf.url
                   THEN /\ m_skipped' = m_skipped + 1
                        /\ UNCHANGED <<m_pc, dlVars>>
                   ELSE /\ DlCall(dest, m_new_token, m_done + m_failed + 1)
                        /\ m_pc' = "download"
                        /\ UNCHANGED m_skipped
    /\ UNCHANGED <<fs, m_folders, m_token, m_new_token, m_folder, m_nrecords, m_done,
                   m_failed, tok_issued, srv>>

MainDownloadRaised_continue ==
    /\ m_pc = "download"
    /\ d_result = "error"
    /\ m_pc' = "assets"
    /\ m_failed' = m_failed + 1
    /\ UNCHANGED <<fs, m_folders, dlVars, m_token, m_new_token, m_folder, m_files,
                   m_nassets, m_nrecords, m_done, m_skipped, tok_issued, srv>>

\* download returned: the for loop goes on
MainDownloadReturned ==
    /\ m_pc = "download"
    /\ d_result = "ok"
    /\ m_pc' = "assets"
    /\ m_done' = m_done + 1
    /\ UNCHANGED <<fs, m_folders, dlVars, m_token, m_new_token, m_folder, m_files,
                   m_nassets, m_nrecords, m_failed, m_skipped, tok_issued, srv>>

\* download raised: nothing in main catches it, the process ends with a traceback
MainDownloadRaised ==
    /\ m_pc = "download"
    /\ d_result = "error"
    /\ m_pc' = "failed"
    /\ m_failed' = m_failed + 1
    /\ UNCHANGED <<fs, m_folders, dlVars, m_token, m_new_token, m_folder, m_files,
                   m_nassets, m_nrecords, m_done, m_skipped, tok_issued, srv>>

\* files a folder may hold from earlier runs: finished files and a stale staging file
OldFiles(folder) ==
    LET p == MkPath(folder, "audio_only", ".m4a")
    IN  { p, with_counter(p, 2), with_counter(p, 3), part_of(p),
          part_of(with_counter(p, 4)),
          MkPath(folder, "shared_screen_with_speaker_view", ".mp4") }

\* main has reached line 120 for a meeting whose folder may hold files of earlier runs
AssetsInit ==
    /\ WinIdle
    /\ ListIdle
    /\ DlIdle
    /\ tok_issued = 2
    /\ srv = [pages |-> 0, recs |-> 0]
    /\ m_folders = {FolderOf("standup", <<2024, 1, 15>>)}
    /\ m_files \in SeqsUpTo(RecordingFiles, MaxAssets)
    /\ \E old \in SUBSET OldFiles(FolderOf("standup", <<2024, 1, 15>>)) :
          fs = [q \in old |-> [src |-> 0, len |-> IF q.part THEN 1 ELSE MaxChunks]]
    /\ m_pc = "assets"
    /\ m_token = 1
    /\ m_new_token = 2
    /\ m_folder = FolderOf("standup", <<2024, 1, 15>>)
    /\ m_nassets = 0
    /\ m_nrecords = 1
    /\ m_done = 0
    /\ m_failed = 0
    /\ m_skipped = 0

AssetsNext ==
    \/ (MainNextAsset /\ UNCHANGED <<winVars, listVars>>)
    \/ (DlRequest /\ UNCHANGED <<winVars, listVars, m_folders, mainVars>>)
    \/ (DlRefreshRecurse /\ UNCHANGED <<winVars, listVars, m_folders, mainVars>>)
    \/ (DlChunk /\ UNCHANGED <<winVars, listVars, m_folders, mainVars>>)
    \/ (DlStreamFail /\ UNCHANGED <<winVars, listVars, m_folders, mainVars>>)
    \/ (DlFinish /\ UNCHANGED <<winVars, listVars, m_folders, mainVars>>)
    \/ (MainDownloadReturned /\ UNCHANGED <<winVars, listVars>>)
    \/ (MainDownloadRaised /\ UNCHANGED <<winVars, listVars>>)

SpecAssets == AssetsInit /\ [][AssetsNext]_vars

(***************************************************************************)
(* Properties of download and next_unique_path                             *)
(***************************************************************************)

\* a download call has been made
DlCalled == d_dest # NoPath

ZeroBytes == "Downloaded zero bytes."

\* the final files of f
Finals(f) == { q \in DOMAIN f : ~q.part }

C2_FinalInv ==
    /\ DlCalled =>
          (exists(fs, d_dest) =>
              /\ fs[d_dest].src = d_src
              /\ fs[d_dest].len = d_len
              /\ d_len > 0)
    /\ \A q \in Finals(fs) : fs[q].len = MaxChunks

C2_FinalStep ==
    \A q \in Finals(fs') :
        (~exists(fs, q) \/ fs'[q] # fs[q]) =>
            /\ q = d_dest
            /\ d_pc = "streaming"
            /\ exists(fs, part_of(q))
            /\ fs[part_of(q)].len = d_len
            /\ d_len > 0
            /\ fs'[q] = fs[part_of(q)]
            /\ ~exists(fs', part_of(q))

\* C2: in every state of a download, a failure or crash at any point included, the
\* final path is absent or holds the complete, non-empty body of the source; a final
\* path only ever changes by the rename of the completed, non-empty ".part" sibling.
C2_NoPartialAtFinalPath == []C2_FinalInv /\ [][C2_FinalStep]_vars

\* the stream broke after one chunk: the staging file is partial, the final path absent
C2_Witness ==
    /\ DlCalled
    /\ d_error = "ConnectionError"
    /\ exists(fs, part_of(d_dest))
    /\ fs[part_of(d_dest)].len > 0
    /\ fs[part_of(d_dest)].len < d_len
    /\ ~exists(fs, d_dest)

\* C3: one download call makes at most 2 requests of the asset and at most 1 token
\* refresh, whatever the service answers.
C3_AtMostOneRetry == d_requests <= 2 /\ d_refreshes <= 1

\* C4: when the first attempt got 401 and the retry with the fresh token committed the
\* file, download reports success and main goes on with the next recording file.
C4_SuccessAfterRetry ==
    (d_pc = "idle" /\ d_requests = 2 /\ d_refreshes = 1 /\ exists(fs, d_dest)) =>
        (d_result = "ok" /\ m_pc # "failed")

C7_ZeroStep ==
    (d_pc = "streaming" /\ d_len = 0 /\ d_pc' # "streaming") =>
        /\ d_result' = "error"
        /\ d_error' = ZeroBytes
        /\ ~exists(fs', part_of(d_dest))
        /\ ~exists(fs', d_dest)
        /\ FsUnlink(fs', part_of(d_dest)) = FsUnlink(d_fs0, part_of(d_dest))

C7_ZeroInv ==
    (d_error = ZeroBytes) =>
        /\ d_result = "error"
        /\ ~exists(fs, part_of(d_dest))
        /\ ~exists(fs, d_dest)
        /\ FsUnlink(fs, part_of(d_dest)) = FsUnlink(d_fs0, part_of(d_dest))

\* C7: a transfer that ends with zero bytes makes download fail with the empty-download
\* error and leaves neither the ".part" file nor a file at the final path, every other
\* file being as it was when download was called.
C7_ZeroBytesCleanFailure == []C7_ZeroInv /\ [][C7_ZeroStep]_vars

\* a zero-byte transfer failed where a stale staging file lay before the call
C7_Witness ==
    /\ d_error = ZeroBytes
    /\ d_requests = 1
    /\ exists(d_fs0, part_of(d_dest))

\* the path next_unique_path was asked about, given the path it returned
Requested(dest) == [dest EXCEPT !.ctr = 0]

C8_UniqueInv ==
    DlCalled =>
        LET p == Requested(d_dest)
            n == d_dest.ctr
        IN  /\ ~exists(d_fs0, d_dest)
            /\ ~exists(d_fs0, p) => d_dest = p
            /\ exists(d_fs0, p) =>
                  /\ n >= 2
                  /\ d_dest = with_counter(p, n)
                  /\ \A k \in 2 .. n - 1 : exists(d_fs0, with_counter(p, k))
            /\ ( /\ {p, with_counter(p, 2), with_counter(p, 3)} \subseteq DOMAIN d_fs0
                 /\ ~exists(d_fs0, with_counter(p, 4)) ) => d_dest = with_counter(p, 4)

C8_NoOverwriteStep ==
    \A q \in Finals(fs) : exists(fs', q) /\ fs'[q] = fs[q]

\* C8: next_unique_path returns a path that does not exist when it is called: the
\* requested path p when p is free, else p-n for the smallest n >= 2 with p-n free
\* (p-4 against {p, p-2, p-3}); so no finished file is ever replaced or removed.
C8_UniquePathNoOverwrite == []C8_UniqueInv /\ [][C8_NoOverwriteStep]_vars

\* a download was committed at p-4 while p, p-2 and p-3 existed
C8_Witness ==
    /\ DlCalled
    /\ d_dest.ctr = 4
    /\ exists(fs, d_dest)
    /\ {Requested(d_dest), with_counter(Requested(d_dest), 2),
         with_counter(Requested(d_dest), 3)} \subseteq DOMAIN d_fs0

(***************************************************************************)
(* month_windows: one action per iteration of the generator's loop         *)
(***************************************************************************)

window_end(e, next_first) == DateMin(e, PrevDay(next_first))

\* month_windows(start_d, end_d) is called: cur = first_of_month(start_d)
WinCall(s, e) ==
    /\ start_d = s
    /\ end_d = e
    /\ cur = first_of_month(s)
    /\ windows = <<>>
    /\ wpc = "loop"

WinInit ==
    /\ \E s \in Dates, e \in Dates : WinCall(s, e)
    /\ tok_issued = 0
    /\ srv = [pages |-> 0, recs |-> 0]
    /\ ListIdle
    /\ fs = <<>>
    /\ m_folders = {}
    /\ DlIdle
    /\ MainIdle

\* the pair the generator yields next
CurWindow == <<isoformat(cur), isoformat(window_end(end_d, add_month(cur)))>>

\* while cur <= end_d: ... yield cur.isoformat(), window_end.isoformat(); cur = next_first
MonthWindowsYield ==
    /\ wpc = "loop"
    /\ DateLE(cur, end_d)
    /\ windows' = Append(windows, CurWindow)
    /\ cur' = add_month(cur)
    /\ UNCHANGED <<start_d, end_d, wpc>>

\* the loop condition fails: the generator is exhausted
MonthWindowsReturn ==
    /\ wpc = "loop"
    /\ ~DateLE(cur, end_d)
    /\ wpc' = "returned"
    /\ UNCHANGED <<start_d, end_d, cur, windows>>

WinNext ==
    \/ (MonthWindowsYield /\ UNCHANGED <<tok_issued, srv, listVars, fs, m_folders, dlVars, mainVars>>)
    \/ (MonthWindowsReturn /\ UNCHANGED <<tok_issued, srv, listVars, fs, m_folders, dlVars, mainVars>>)

SpecWindows == WinInit /\ [][WinNext]_vars

(***************************************************************************)
(* main: the whole run                                                     *)
(***************************************************************************)

\* meetings the remote library holds in the run's range
RunRecords == 2

\* pages of meetings the remote library serves in the run's range
RunPages == 1

\* FROM_DATE and TO_DATE of the runs
RunRanges ==
    { <<MkDate(2024, 1, 15), MkDate(2024, 3, 10)>>,
      <<MkDate(2024, 2, 10), MkDate(2024, 2, 20)>>,
      <<MkDate(2024, 2, 20), MkDate(2024, 2, 10)>>,
      <<MkDate(2024, 3, 10), MkDate(2024, 1, 15)>> }

Topics == {"standup", "review"}

Audio == <<"audio_only", ".m4a">>

Video == <<"shared_screen_with_speaker_view", ".mp4">>

\* meeting.get("recording_files") of the meetings the service lists
FileLists ==
    { <<>>,
      <<[name |-> Audio, url |-> TRUE], [name |-> Video, url |-> TRUE]>>,
      <<[name |-> Video, url |-> FALSE], [name |-> Audio, url |-> TRUE]>> }

MainInit ==
    /\ \E r \in RunRanges : WinCall(r[1], r[2])
    /\ tok_issued = 0
    /\ srv = [pages |-> RunPages, recs |-> RunRecords]
    /\ ListIdle
    /\ DlIdle
    /\ fs = <<>>
    /\ m_folders = {}
    /\ m_pc = "init"
    /\ m_token = 0
    /\ m_new_token = 0
    /\ m_folder = <<>>
    /\ m_files = <<>>
    /\ m_nassets = 0
    /\ m_nrecords = 0
    /\ m_done = 0
    /\ m_failed = 0
    /\ m_skipped = 0

\* lines 103-109: the output directory, the dates, token = get_token()
MainStart ==
    /\ m_pc = "init"
    /\ \/ /\ tok_issued' = tok_issued + 1
          /\ m_token' = tok_issued + 1
          /\ m_pc' = "windows"
       \/ \* get_token() raises
          /\ m_pc' = "failed"
          /\ UNCHANGED <<tok_issued, m_token>>
    /\ UNCHANGED <<winVars, srv, listVars, fs, m_folders, dlVars, m_new_token, m_folder,
                   m_files, m_nassets, m_nrecords, m_done, m_failed, m_skipped>>

\* line 111 yields a window: line 112 calls list_records(token, USER_ID, f, t)
MainNextWindow ==
    /\ m_pc = "windows"
    /\ MonthWindowsYield
    /\ ListCall(m_token, CurWindow[1], CurWindow[2])
    /\ m_pc' = "records"
    /\ UNCHANGED <<tok_issued, srv, fs, m_folders, dlVars, m_token, m_new_token, m_folder,
                   m_files, m_nassets, m_nrecords, m_done, m_failed, m_skipped>>

\* line 111 is exhausted: main returns and the process exits with status 0
MainExit ==
    /\ m_pc = "windows"
    /\ MonthWindowsReturn
    /\ m_pc' = "exit0"
    /\ UNCHANGED <<tok_issued, srv, listVars, fs, m_folders, dlVars, m_token, m_new_token,
                   m_folder, m_files, m_nassets, m_nrecords, m_done, m_failed, m_skipped>>

\* line 112: the for statement asks list_records for its next element
MainPull ==
    /\ m_pc = "records"
    /\ ConsumerNext
    /\ m_pc' = "await"
    /\ UNCHANGED <<winVars, fs, m_folders, dlVars, m_token, m_new_token, m_folder,
                   m_files, m_nassets, m_nrecords, m_done, m_failed, m_skipped>>

\* lines 112-118: a meeting arrived with the generator's token; a fresh token for its
\* downloads; its folder is made
MainGotRecord ==
    /\ m_pc = "await"
    /\ ~l_demand
    /\ l_pc = "yielding"
    /\ m_token' = l_out[Len(l_out)][2]
    /\ m_nrecords' = m_nrecords + 1
    /\ \/ \E topic \in Topics, files \in FileLists :
             /\ tok_issued' = tok_issued + 1
             /\ m_new_token' = tok_issued + 1
             /\ m_folder' = FolderOf(topic, l_window[1])
             /\ m_folders' = m_folders \cup {FolderOf(topic, l_window[1])}
             /\ m_files' = files
             /\ m_nassets' = 0
             /\ m_pc' = "assets"
       \/ \* get_token() raises
          /\ m_pc' = "failed"
          /\ UNCHANGED <<tok_issued, m_new_token, m_folder, m_folders, m_files, m_nassets>>
    /\ UNCHANGED <<winVars, srv, listVars, fs, dlVars, m_done, m_failed, m_skipped>>

\* list_records is exhausted: back to line 111
MainListDone ==
    /\ m_pc = "await"
    /\ l_pc = "done"
    /\ m_pc' = "windows"
    /\ UNCHANGED <<winVars, tok_issued, srv, listVars, fs, m_folders, dlVars, m_token,
                   m_new_token, m_folder, m_files, m_nassets, m_nrecords, m_done, m_failed,
                   m_skipped>>

\* list_records raised: nothing in main catches it
MainListRaised ==
    /\ m_pc = "await"
    /\ l_pc = "raised"
    /\ m_pc' = "failed"
    /\ UNCHANGED <<winVars, tok_issued, srv, listVars, fs, m_folders, dlVars, m_token,
                   m_new_token, m_folder, m_files, m_nassets, m_nrecords, m_done, m_failed,
                   m_skipped>>

MainNext ==
    \/ MainStart
    \/ MainNextWindow
    \/ MainExit
    \/ MainPull
    \/ (ListFetch /\ UNCHANGED <<winVars, fs, m_folders, dlVars, mainVars>>)
    \/ (ListRetry /\ UNCHANGED <<winVars, fs, m_folders, dlVars, mainVars>>)
    \/ (ListYield /\ UNCHANGED <<winVars, fs, m_folders, dlVars, mainVars>>)
    \/ (ListPageEnd /\ UNCHANGED <<winVars, fs, m_folders, dlVars, mainVars>>)
    \/ MainGotRecord
    \/ MainListDone
    \/ MainListRaised
    \/ (MainNextAsset /\ UNCHANGED <<winVars, listVars>>)
    \/ (DlRequest /\ UNCHANGED <<winVars, listVars, m_folders, mainVars>>)
    \/ (DlRefreshRecurse /\ UNCHANGED <<winVars, listVars, m_folders, mainVars>>)
    \/ (DlChunk /\ UNCHANGED <<winVars, listVars, m_folders, mainVars>>)
    \/ (DlStreamFail /\ UNCHANGED <<winVars, listVars, m_folders, mainVars>>)
    \/ (DlFinish /\ UNCHANGED <<winVars, listVars, m_folders, mainVars>>)
    \/ (MainDownloadReturned /\ UNCHANGED <<winVars, listVars>>)
    \/ (MainDownloadRaised /\ UNCHANGED <<winVars, listVars>>)

SpecMain == MainInit /\ [][MainNext]_vars

(***************************************************************************)
(* Properties of main                                                      *)
(***************************************************************************)

TokenExpired == "Token expired during download. Re-run the script."

\* C6 as stated: a download that raised does not abort the run.
C6_ContinueOnError == m_failed > 0 => m_pc # "failed"

C6_FailFastInv ==
    /\ m_failed <= 1
    /\ m_failed = 1 => (m_pc = "failed" /\ d_result = "error")
    /\ m_pc = "exit0" => (m_failed = 0 /\ wpc = "returned")
    /\ Cardinality(m_folders) <= m_nrecords
    /\ m_pc \in {"exit0", "failed"} =>
          Cardinality(Finals(fs)) =
              m_done + (IF m_failed = 1 /\ d_error = TokenExpired THEN 1 ELSE 0)
    /\ (m_pc = "failed" /\ d_error = ZeroBytes) =>
          (~exists(fs, d_dest) /\ ~exists(fs, part_of(d_dest)))

\* C6, amended: main is fail-fast. The first download that raises ends the run with an
\* error: no step follows it, so no later recording file, meeting or window is
\* attempted; the files committed before it stay, and a zero-byte download leaves no
\* file of its own. A run that exits normally had no failed download.
C6_FailFast == []C6_FailFastInv /\ [][m_pc # "failed"]_vars

\* range 2024-01-15..2024-03-10: the first meeting's audio was committed, its video
\* came with zero bytes, and the run is over with one folder and one file while
\* another meeting of the page and further windows were still to come
C6_Witness ==
    /\ start_d = MkDate(2024, 1, 15)
    /\ end_d = MkDate(2024, 3, 10)
    /\ m_pc = "failed"
    /\ d_error = ZeroBytes
    /\ m_done = 1
    /\ Cardinality(m_folders) = 1
    /\ Cardinality(DOMAIN fs) = 1
    /\ l_idx < l_data.n
    /\ DateLE(cur, end_d)

(***************************************************************************)
(* Properties of month_windows                                             *)
(***************************************************************************)

\* date.fromisoformat
fromisoformat(t) == MkDate(t[1], t[2], t[3])

WStart(i) == fromisoformat(windows[i][1])

WEnd(i) == fromisoformat(windows[i][2])

\* the windows are in order, adjacent, and each lies within one calendar month
WindowsChained ==
    /\ \A i \in DOMAIN windows : DateLE(WStart(i), WEnd(i))
    /\ \A i \in DOMAIN windows : i < Len(windows) => WStart(i + 1) = NextDay(WEnd(i))
    /\ \A i \in DOMAIN windows :
          (1 < i /\ i < Len(windows)) =>
              /\ WStart(i).d = 1
              /\ WEnd(i) = MkDate(WStart(i).y, WStart(i).m,
                                  DaysInMonth(WStart(i).y, WStart(i).m))

\* C1: for start <= end the windows of month_windows partition exactly [start, end]:
\* in order, without gap or overlap, the first beginning on start itself, the last
\* ending on end, every intermediate one a full calendar month.
C1_WindowsPartitionRange ==
    (wpc = "returned" /\ DateLE(start_d, end_d)) =>
        /\ windows # <<>>
        /\ WStart(1) = start_d
        /\ WEnd(Len(windows)) = end_d
        /\ WindowsChained

\* what the generator does produce: the partition of [first day of start's month, end]
WindowsFromMonthStart ==
    (wpc = "returned" /\ DateLE(first_of_month(start_d), end_d)) =>
        /\ windows # <<>>
        /\ WStart(1) = first_of_month(start_d)
        /\ WEnd(Len(windows)) = end_d
        /\ WindowsChained

\* C9: for end < start the planner fails with an invalid-range error and yields no
\* window: it neither yields nor returns normally.
C9_InvalidRangeRejected ==
    DateLT(end_d, start_d) => (windows = <<>> /\ wpc # "returned")

\* one call of list_records for one window, with the token main holds
ListInit ==
    /\ WinIdle
    /\ fs = <<>>
    /\ m_folders = {}
    /\ DlIdle
    /\ MainIdle
    /\ tok_issued = 1
    /\ srv = [pages |-> MaxPages, recs |-> MaxPages * MaxPageRecs]
    /\ l_window = <<isoformat(MkDate(2024, 1, 1)), isoformat(MkDate(2024, 1, 31))>>
    /\ l_token = 1
    /\ l_cursor = None
    /\ l_next_page = None
    /\ l_data = [n |-> 0, next |-> None]
    /\ l_idx = 0
    /\ l_pc = "fetch"
    /\ l_demand = FALSE
    /\ l_reqs = <<>>
    /\ l_refreshes = 0
    /\ l_pages = <<>>
    /\ l_out = <<>>

ListNext ==
    \/ (ConsumerNext /\ UNCHANGED <<winVars, fs, m_folders, dlVars, mainVars>>)
    \/ (ListFetch /\ UNCHANGED <<winVars, fs, m_folders, dlVars, mainVars>>)
    \/ (ListRetry /\ UNCHANGED <<winVars, fs, m_folders, dlVars, mainVars>>)
    \/ (ListYield /\ UNCHANGED <<winVars, fs, m_folders, dlVars, mainVars>>)
    \/ (ListPageEnd /\ UNCHANGED <<winVars, fs, m_folders, dlVars, mainVars>>)

SpecList == ListInit /\ [][ListNext]_vars

\* the generator is sequential code and its consumer iterates it to exhaustion
SpecListFair == SpecList /\ WF_vars(ListNext)

(***************************************************************************)
(* Properties of list_records                                              *)
(***************************************************************************)

RECURSIVE SumN(_, _)
\* records held by the first k pages
SumN(pages, k) == IF k = 0 THEN 0 ELSE SumN(pages, k - 1) + pages[k].n

RECURSIVE RecordsOf(_, _)
\* the records of the first k pages, in page order
RecordsOf(pages, k) ==
    IF k = 0 THEN <<>>
    ELSE RecordsOf(pages, k - 1) \o [j \in 1 .. pages[k].n |-> <<k, j>>]

\* request i is the first request of its page
FirstOfPage(i) == i = 1 \/ l_reqs[i - 1].page # l_reqs[i].page

FirstTry401 == { i \in DOMAIN l_reqs : FirstOfPage(i) /\ l_reqs[i].status = 401 }

\* C5: per page fetch of list_records, a 401 on the first request causes exactly one
\* get_token() call and, once it returned, exactly one retry of the same page (same
\* window, same cursor) with the fresh token; listing goes on with that token; a
\* second non-success answer ends the listing with an error, with no further request
\* and no further refresh; no page is requested more than twice.
C5_RetrySamePageOnce ==
    /\ \A p \in 1 .. MaxPages + 1 :
          Cardinality({ i \in DOMAIN l_reqs : l_reqs[i].page = p }) <= 2
    /\ l_refreshes = Cardinality(FirstTry401) - (IF l_pc = "got401" THEN 1 ELSE 0)
    /\ \A i \in DOMAIN l_reqs :
          LET r == l_reqs[i]
          IN  /\ (i \in FirstTry401) =>
                    \/ i = Len(l_reqs) /\ l_pc \in {"got401", "raised"}
                    \/ /\ i < Len(l_reqs)
                       /\ l_reqs[i + 1].page = r.page
                       /\ l_reqs[i + 1].win = r.win
                       /\ l_reqs[i + 1].cursor = r.cursor
                       /\ l_reqs[i + 1].token > r.token
              /\ ~FirstOfPage(i) =>
                    /\ l_reqs[i - 1].status = 401
                    /\ FirstOfPage(i - 1)
                    /\ r.status # 200 => (i = Len(l_reqs) /\ l_pc = "raised")
              /\ (FirstOfPage(i) /\ i > 1) => r.token = l_reqs[i - 1].token
              /\ r.token <= tok_issued
    /\ \A k \in DOMAIN l_out : l_out[k][2] <= l_token
    /\ (l_reqs # <<>>) => l_token = l_reqs[Len(l_reqs)].token

\* a page other than the first answered 401 once, its retry with the fresh token
\* succeeded, and the following page was requested
C5_Witness ==
    \E i \in DOMAIN l_reqs :
        /\ i + 2 \in DOMAIN l_reqs
        /\ l_reqs[i].status = 401
        /\ l_reqs[i].cursor \in Cursors
        /\ l_reqs[i + 1].status = 200
        /\ l_reqs[i + 2].token = l_reqs[i + 1].token

\* the page served last came without a next cursor
LastPageHasNoCursor == l_pages # <<>> /\ l_pages[Len(l_pages)].next \notin Cursors

\* the safety half of C10
ListWalkInv ==
    /\ \A i \in DOMAIN l_reqs :
          LET r == l_reqs[i]
          IN  /\ r.yielded = SumN(l_pages, r.page - 1)
              /\ r.cursor = (IF r.page = 1 THEN None ELSE l_pages[r.page - 1].next)
              /\ r.page > 1 => l_pages[r.page - 1].next \in Cursors
    /\ Len(l_out) <= SumN(l_pages, Len(l_pages))
    /\ \A k \in DOMAIN l_out : l_out[k][1] = RecordsOf(l_pages, Len(l_pages))[k]
    /\ (l_pc = "fetch" /\ l_reqs = <<>>) => l_out = <<>>
    /\ l_pc = "done" =>
          /\ LastPageHasNoCursor
          /\ [k \in DOMAIN l_out |-> l_out[k][1]] = RecordsOf(l_pages, Len(l_pages))
    /\ LastPageHasNoCursor => l_pc \in {"yielding", "done"}
    /\ l_demand => l_pc \notin {"done", "raised"}

\* C10: list_records is a lazy cursor walk: a page is requested only after every record
\* of the pages before it was handed to the consumer, each request carries the cursor
\* the preceding page returned, the records come out once each in page order, and the
\* walk ends exactly when a page comes without a next cursor, which it does whenever
\* the service returns such a page.
C10_LazyCursorWalk ==
    /\ []ListWalkInv
    /\ (LastPageHasNoCursor ~> (l_pc = "done"))

\* three pages were walked and the generator is exhausted
C10_Witness ==
    /\ l_pc = "done"
    /\ Len(l_pages) = 3
    /\ Len(l_out) >= 3
    /\ l_pages[1].next # l_pages[2].next

====
